---- MODULE Spec2Model ----
(***************************************************************************)
(* Model of the scenario plugin of src/main.ts: the "Validate YAML         *)
(* Scenario" command (lines 122-157) and the "Compare Scenario Versions"   *)
(* command with its simpleDiff method (lines 195-248).                     *)
(*                                                                         *)
(* Decoded YAML values are JavaScript values.  They are modelled as tagged *)
(* records, one field name per tag so that two values of different tags    *)
(* are always comparable:                                                  *)
(*   undefined, null, boolean (b), number (n), string (s), array (a),      *)
(*   object (o, a function from its keys to values).                       *)
(* Objects list their keys in the order of KeyOrder when serialised; the   *)
(* documents enumerated below write their keys in that order.  Strings     *)
(* hold no character that JSON.stringify escapes.                          *)
(***************************************************************************)
EXTENDS Integers, Sequences, FiniteSets, TLC

VARIABLES active, snapshot, notice, diffFile

vars == <<active, snapshot, notice, diffFile>>

(***************************************************************************)
(* Bounds                                                                  *)
(***************************************************************************)
MaxScenarios == 2

(***************************************************************************)
(* JavaScript values                                                       *)
(***************************************************************************)
Undefined == [t |-> "undefined"]
Null == [t |-> "null"]
Bool(b) == [t |-> "boolean", b |-> b]
Num(n) == [t |-> "number", n |-> n]
Str(s) == [t |-> "string", s |-> s]
Arr(q) == [t |-> "array", a |-> q]
Obj(f) == [t |-> "object", o |-> f]
EmptyObject == Obj([k \in {} |-> Null])

\* !v is FALSE exactly for the truthy values
Truthy(v) ==
  CASE v.t = "undefined" -> FALSE
    [] v.t = "null" -> FALSE
    [] v.t = "boolean" -> v.b
    [] v.t = "number" -> v.n # 0
    [] v.t = "string" -> v.s # ""
    [] OTHER -> TRUE

typeof(v) ==
  CASE v.t \in {"null", "array", "object"} -> "object"
    [] OTHER -> v.t

isArray(v) == v.t = "array"

\* v.k and v?.k raise or short-circuit on these
IsNullish(v) == v.t \in {"undefined", "null"}

\* v.k for a v that is not nullish: primitives and arrays have none of the
\* keys the plugin reads
Get(v, k) == IF v.t = "object" /\ k \in DOMAIN v.o THEN v.o[k] ELSE Undefined

\* v?.k
OptGet(v, k) == IF IsNullish(v) THEN Undefined ELSE Get(v, k)

\* the right operand of `in` must be an object, else TypeError
InThrows(v) == v.t \notin {"array", "object"}

\* 'k' in v, for an array or object v
HasKey(v, k) == v.t = "object" /\ k \in DOMAIN v.o

(***************************************************************************)
(* Validate YAML Scenario                                                  *)
(***************************************************************************)
Ok(errs) == [threw |-> FALSE, errs |-> errs]
Thrown == [threw |-> TRUE, errs |-> <<>>]

Then(r1, r2) == IF r1.threw \/ r2.threw THEN Thrown ELSE Ok(r1.errs \o r2.errs)

ScenarioPrefix(i) == "Scenario " \o ToString(i)
TriggerPrefix(i, j) == ScenarioPrefix(i) \o ", Trigger " \o ToString(j)
StepPrefix(i, k) == ScenarioPrefix(i) \o ", Step " \o ToString(k)

\* indices are 0-based in the messages, 1-based in the sequences
checkField(field, value, type) ==
  IF ~Truthy(value) \/ typeof(value) # type THEN <<field \o " invalid">> ELSE <<>>

TypeCheck(t, i, j) ==
  LET ty == OptGet(Get(t, "trigger"), "type")
  IN IF ~Truthy(ty) \/ typeof(ty) # "string"
     THEN <<TriggerPrefix(i, j) \o ": type invalid">> ELSE <<>>

\* ValueCheck with a truthiness test in place of the `in` test
ValueCheck_truthy(t, i, j) ==
  IF InThrows(Get(t, "trigger")) THEN Thrown
  ELSE IF ~Truthy(Get(Get(t, "trigger"), "value"))
       THEN Ok(<<TriggerPrefix(i, j) \o ": value missing">>)
       ELSE Ok(<<>>)

ValueCheck(t, i, j) ==
  IF InThrows(Get(t, "trigger")) THEN Thrown
  ELSE IF ~HasKey(Get(t, "trigger"), "value")
       THEN Ok(<<TriggerPrefix(i, j) \o ": value missing">>)
       ELSE Ok(<<>>)

TriggerCallback(t, i, j) ==
  IF IsNullish(t) THEN Thrown
  ELSE Then(Ok(TypeCheck(t, i, j)), ValueCheck(t, i, j))

RECURSIVE TriggersFrom(_, _, _)
TriggersFrom(ts, i, j) ==
  IF j > Len(ts) THEN Ok(<<>>)
  ELSE Then(TriggerCallback(ts[j], i, j - 1), TriggersFrom(ts, i, j + 1))

StepCallback(st, i, k) ==
  IF IsNullish(st) THEN Thrown
  ELSE IF \/ ~Truthy(Get(st, "type"))
          \/ ~Truthy(OptGet(Get(st, "parameters"), "items"))
          \/ ~isArray(Get(Get(st, "parameters"), "items"))
       THEN Ok(<<StepPrefix(i, k) \o ": invalid structure">>)
       ELSE Ok(<<>>)

RECURSIVE StepsFrom(_, _, _)
StepsFrom(ss, i, k) ==
  IF k > Len(ss) THEN Ok(<<>>)
  ELSE Then(StepCallback(ss[k], i, k - 1), StepsFrom(ss, i, k + 1))

TriggersPart(s, i) ==
  LET ts == Get(s, "triggers")
  IN IF ~Truthy(ts) \/ ~isArray(ts)
     THEN Ok(<<ScenarioPrefix(i) \o ": triggers missing or not an array">>)
     ELSE TriggersFrom(ts.a, i, 1)

StepsPart(s, i) ==
  LET ss == Get(s, "steps")
  IN IF ~Truthy(ss) \/ ~isArray(ss)
     THEN Ok(<<ScenarioPrefix(i) \o ": steps missing or not an array">>)
     ELSE StepsFrom(ss.a, i, 1)

ScenarioCallback(s, i) ==
  IF IsNullish(s) THEN Thrown
  ELSE Then(Ok(checkField(ScenarioPrefix(i) \o ": id", Get(s, "id"), "string")
               \o checkField(ScenarioPrefix(i) \o ": name", Get(s, "name"), "string")),
            Then(TriggersPart(s, i), StepsPart(s, i)))

RECURSIVE ScenariosFrom(_, _)
ScenariosFrom(sc, i) ==
  IF i > Len(sc) THEN Ok(<<>>)
  ELSE Then(ScenarioCallback(sc[i], i - 1), ScenariosFrom(sc, i + 1))

\* A note is [yaml, data]: yaml = "none" when the note has no yaml block,
\* "syntax" when jsyaml.load rejects the block, "ok" when it decodes to data.
Notice(kind, errors) == [kind |-> kind, errors |-> errors]
NoNotice == Notice("none", <<>>)

\* validate without the Array.isArray test on `scenarios`
validate_rootTruthyOnly(note) ==
  IF note.yaml = "none" THEN Notice("no_yaml", <<>>)
  ELSE IF note.yaml = "syntax" THEN Notice("parse_error", <<>>)
  ELSE LET scenarios == OptGet(note.data, "scenarios")
       IN IF ~Truthy(scenarios)
          THEN Notice("invalid_root",
                      <<"Invalid YAML: \"scenarios\" missing or not an array.">>)
          ELSE LET r == IF isArray(scenarios) THEN ScenariosFrom(scenarios.a, 1) ELSE Thrown
               IN IF r.threw THEN Notice("parse_error", <<>>)
                  ELSE IF Len(r.errs) > 0 THEN Notice("failed", r.errs)
                  ELSE Notice("valid", <<>>)

validate(note) ==
  IF note.yaml = "none" THEN Notice("no_yaml", <<>>)
  ELSE IF note.yaml = "syntax" THEN Notice("parse_error", <<>>)
  ELSE LET scenarios == OptGet(note.data, "scenarios")
       IN IF ~Truthy(scenarios) \/ ~isArray(scenarios)
          THEN Notice("invalid_root",
                      <<"Invalid YAML: \"scenarios\" missing or not an array.">>)
          ELSE LET r == ScenariosFrom(scenarios.a, 1)
               IN IF r.threw THEN Notice("parse_error", <<>>)
                  ELSE IF Len(r.errs) > 0 THEN Notice("failed", r.errs)
                  ELSE Notice("valid", <<>>)

(***************************************************************************)
(* Compare Scenario Versions                                               *)
(***************************************************************************)
KeyOrder ==
  <<"version", "scenarios", "id", "name", "triggers", "steps", "icon", "devices",
    "trigger", "type", "value", "parameters", "items">>

RECURSIVE JSONtext(_), JoinArr(_, _), JoinObj(_, _, _)
JSONtext(v) ==
  CASE v.t = "undefined" -> "null"
    [] v.t = "null" -> "null"
    [] v.t = "boolean" -> IF v.b THEN "true" ELSE "false"
    [] v.t = "number" -> ToString(v.n)
    [] v.t = "string" -> "\"" \o v.s \o "\""
    [] v.t = "array" -> "[" \o JoinArr(v.a, 1) \o "]"
    [] v.t = "object" ->
         "{" \o JoinObj(v.o, SelectSeq(KeyOrder, LAMBDA k : k \in DOMAIN v.o), 1) \o "}"

JoinArr(q, i) ==
  IF i > Len(q) THEN ""
  ELSE (IF i > 1 THEN "," ELSE "") \o JSONtext(q[i]) \o JoinArr(q, i + 1)

JoinObj(f, ks, i) ==
  IF i > Len(ks) THEN ""
  ELSE (IF i > 1 THEN "," ELSE "") \o "\"" \o ks[i] \o "\":" \o JSONtext(f[ks[i]])
       \o JoinObj(f, ks, i + 1)

\* JSON.stringify(v): undefined for undefined, else the text; s is what a
\* template literal prints for it
JSONstringify(v) ==
  IF v.t = "undefined" THEN [def |-> FALSE, s |-> "undefined"]
  ELSE [def |-> TRUE, s |-> JSONtext(v)]

\* compare with `a !== b` on the values themselves: two arrays or objects
\* are never the same reference
compare_byReference(a, b, path) ==
  IF a.t \in {"array", "object"} \/ a # b
  THEN <<[path |-> path, old |-> JSONstringify(b).s, new |-> JSONstringify(a).s]>>
  ELSE <<>>

\* compare that skips a falsy new value
compare_newTruthy(a, b, path) ==
  IF Truthy(a) /\ JSONstringify(a) # JSONstringify(b)
  THEN <<[path |-> path, old |-> JSONstringify(b).s, new |-> JSONstringify(a).s]>>
  ELSE <<>>

\* the entries compare(a, b, path) pushes on changes
compare(a, b, path) ==
  IF JSONstringify(a) # JSONstringify(b)
  THEN <<[path |-> path, old |-> JSONstringify(b).s, new |-> JSONstringify(a).s]>>
  ELSE <<>>

ChangeLine(c) == c.path \o ": " \o c.old \o " → " \o c.new

\* q[i] of JavaScript, i 0-based; strings are not indexed by the documents
\* enumerated below
Index(q, i) ==
  IF q.t = "array" /\ i < Len(q.a) THEN q.a[i + 1] ELSE Undefined

\* version.scenarios[i] || {}
Other(version, i) ==
  LET v == Index(Get(version, "scenarios"), i)
  IN IF Truthy(v) THEN v ELSE EmptyObject

DiffOk(changes) == [threw |-> FALSE, changes |-> changes]
DiffThrown == [threw |-> TRUE, changes |-> <<>>]

\* the callback comparing id as well
DiffCallback_withId(s, i, version) ==
  IF IsNullish(version) \/ IsNullish(Get(version, "scenarios")) \/ IsNullish(s)
  THEN DiffThrown
  ELSE LET v == Other(version, i)
       IN DiffOk(compare(Get(s, "id"), Get(v, "id"), ScenarioPrefix(i) \o ".id")
                 \o compare(Get(s, "name"), Get(v, "name"), ScenarioPrefix(i) \o ".name")
                 \o compare(Get(s, "triggers"), Get(v, "triggers"),
                            ScenarioPrefix(i) \o ".triggers")
                 \o compare(Get(s, "steps"), Get(v, "steps"),
                            ScenarioPrefix(i) \o ".steps"))

\* the callback comparing triggers before name
DiffCallback_triggersFirst(s, i, version) ==
  IF IsNullish(version) \/ IsNullish(Get(version, "scenarios")) \/ IsNullish(s)
  THEN DiffThrown
  ELSE LET v == Other(version, i)
       IN DiffOk(compare(Get(s, "triggers"), Get(v, "triggers"),
                         ScenarioPrefix(i) \o ".triggers")
                 \o compare(Get(s, "name"), Get(v, "name"), ScenarioPrefix(i) \o ".name")
                 \o compare(Get(s, "steps"), Get(v, "steps"),
                            ScenarioPrefix(i) \o ".steps"))

\* the callback without the `|| {}` default: v.name raises on undefined
DiffCallback_noDefault(s, i, version) ==
  IF \/ IsNullish(version) \/ IsNullish(Get(version, "scenarios")) \/ IsNullish(s)
     \/ IsNullish(Index(Get(version, "scenarios"), i))
  THEN DiffThrown
  ELSE LET v == Other(version, i)
       IN DiffOk(compare(Get(s, "name"), Get(v, "name"), ScenarioPrefix(i) \o ".name")
                 \o compare(Get(s, "triggers"), Get(v, "triggers"),
                            ScenarioPrefix(i) \o ".triggers")
                 \o compare(Get(s, "steps"), Get(v, "steps"),
                            ScenarioPrefix(i) \o ".steps"))

DiffCallback(s, i, version) ==
  IF IsNullish(version) \/ IsNullish(Get(version, "scenarios")) \/ IsNullish(s)
  THEN DiffThrown
  ELSE LET v == Other(version, i)
       IN DiffOk(compare(Get(s, "name"), Get(v, "name"), ScenarioPrefix(i) \o ".name")
                 \o compare(Get(s, "triggers"), Get(v, "triggers"),
                            ScenarioPrefix(i) \o ".triggers")
                 \o compare(Get(s, "steps"), Get(v, "steps"),
                            ScenarioPrefix(i) \o ".steps"))

RECURSIVE DiffFrom(_, _, _)
DiffFrom(sc, i, version) ==
  IF i > Len(sc) THEN DiffOk(<<>>)
  ELSE LET r1 == DiffCallback(sc[i], i - 1, version)
           r2 == DiffFrom(sc, i + 1, version)
       IN IF r1.threw \/ r2.threw THEN DiffThrown ELSE DiffOk(r1.changes \o r2.changes)

Sentinel == "No differences found."

\* the lines of the returned string (changes.join('\n'))
DiffText(changes) ==
  IF Len(changes) > 0 THEN [n \in 1..Len(changes) |-> ChangeLine(changes[n])]
  ELSE <<Sentinel>>

Diff(kind, changes, text) == [kind |-> kind, changes |-> changes, text |-> text]
NoDiff == Diff("none", <<>>, <<>>)

simpleDiff(current, version) ==
  IF IsNullish(current) \/ ~isArray(Get(current, "scenarios"))
  THEN Diff("threw", <<>>, <<>>)
  ELSE LET r == DiffFrom(Get(current, "scenarios").a, 1, version)
       IN IF r.threw THEN Diff("threw", <<>>, <<>>)
          ELSE Diff("created", r.changes, DiffText(r.changes))

\* jsyaml.load of the yaml block of a note ('' when there is none)
loadThrows(note) == note.yaml = "syntax"
load(note) == IF note.yaml = "ok" THEN note.data ELSE Undefined

compareVersions(cur, ver) ==
  IF loadThrows(cur) \/ loadThrows(ver) THEN Diff("threw", <<>>, <<>>)
  ELSE simpleDiff(load(cur), load(ver))

(***************************************************************************)
(* The notes                                                               *)
(***************************************************************************)
Note(yaml, data) == [yaml |-> yaml, data |-> data]
NoYaml == Note("none", Undefined)
BadSyntax == Note("syntax", Undefined)
Doc(scenarios) == Note("ok", Obj([scenarios |-> Arr(scenarios)]))

SeqsUpTo(S, n) == UNION {[1..m -> S] : m \in 0..n}

GoodTrigger == Obj([trigger |-> Obj([type |-> Str("t"), value |-> Str("v")])])
GoodStep == Obj([type |-> Str("s"), parameters |-> Obj([items |-> Arr(<<>>)])])
Scenario(id, name, triggers, steps) ==
  Obj([id |-> id, name |-> name, triggers |-> Arr(triggers), steps |-> Arr(steps)])
Trigger(f) == Obj([trigger |-> Obj(f)])

ValidateScenarios ==
  { Scenario(Str("a"), Str("n"), <<GoodTrigger>>, <<GoodStep>>),
    Obj([name |-> Num(0), triggers |-> Str("x")]),
    Scenario(Str("a"), Str(""),
             <<Trigger([type |-> Str("t")]), Trigger([value |-> Null])>>,
             <<Obj([type |-> Str("s"), parameters |-> Obj([items |-> Str("not-an-array")])])>>),
    Scenario(Str("a"), Str("n"),
             <<Trigger([type |-> Str(""), value |-> Str("")]),
               Trigger([type |-> Str("t"), value |-> Num(0)])>>,
             <<Obj([parameters |-> Obj([items |-> Arr(<<>>)])]), GoodStep>>),
    Scenario(Str("a"), Str("n"),
             <<Trigger([type |-> Num(5), value |-> Bool(FALSE)]),
               Obj([trigger |-> Arr(<<>>)])>>,
             <<Obj([type |-> Str("s")])>>),
    Scenario(Str("a"), Str("n"),
             <<Trigger([type |-> Str("t")]), Obj([type |-> Str("t")])>>, <<GoodStep>>),
    Scenario(Str("a"), Str("n"), <<Null>>, <<GoodStep>>),
    Scenario(Str("a"), Str("n"), <<GoodTrigger>>, <<Null>>),
    Num(5),
    Null }

ValidateRoots ==
  { NoYaml, BadSyntax, Note("ok", Undefined), Note("ok", Obj([version |-> Num(1)])),
    Note("ok", Obj([scenarios |-> Str("x")])),
    Note("ok", Obj([scenarios |-> Obj([id |-> Str("a")])])) }

ValidateNotes ==
  {Doc(q) : q \in SeqsUpTo(ValidateScenarios, MaxScenarios)} \cup ValidateRoots

DiffScenarios ==
  { Scenario(Str("a"), Str("X"), <<Num(1)>>, <<>>),
    Scenario(Str("b"), Str("Y"), <<GoodTrigger>>, <<>>),
    Obj([id |-> Str("b"), name |-> Str("X"), triggers |-> Arr(<<Num(1)>>),
         steps |-> Arr(<<>>), icon |-> Str("i")]),
    Obj([id |-> Str("a"), name |-> Null]),
    Null }

DiffRoots == { NoYaml, BadSyntax, Note("ok", Obj([version |-> Num(1)])) }

DiffNotes == {Doc(q) : q \in SeqsUpTo(DiffScenarios, MaxScenarios)} \cup DiffRoots

(***************************************************************************)
(* Actions                                                                 *)
(***************************************************************************)
HasScenarios(note) == note.yaml = "ok" /\ isArray(OptGet(note.data, "scenarios"))
ScenariosOf(note) == Get(note.data, "scenarios").a

\* The user edits the yaml block of the active note; the outcome of the
\* last command is about the previous text and is dropped.
Edited(note) ==
  /\ active' = note
  /\ notice' = NoNotice
  /\ diffFile' = NoDiff
  /\ UNCHANGED snapshot

ReplaceScenario(pool) ==
  /\ HasScenarios(active)
  /\ \E i \in 1..Len(ScenariosOf(active)), s \in pool :
       /\ s # ScenariosOf(active)[i]
       /\ Edited(Doc([ScenariosOf(active) EXCEPT ![i] = s]))

AppendScenario(pool) ==
  /\ HasScenarios(active)
  /\ Len(ScenariosOf(active)) < MaxScenarios
  /\ \E s \in pool : Edited(Doc(Append(ScenariosOf(active), s)))

RemoveScenario ==
  /\ HasScenarios(active)
  /\ Len(ScenariosOf(active)) > 0
  /\ Edited(Doc(SubSeq(ScenariosOf(active), 1, Len(ScenariosOf(active)) - 1)))

ReplaceBlock(roots) ==
  \E note \in roots \cup {Doc(<<>>)} : note # active /\ Edited(note)

\* callback of validate-yaml-scenario
ValidateCmd ==
  /\ notice = NoNotice
  /\ notice' = validate(active)
  /\ UNCHANGED <<active, snapshot, diffFile>>

\* callback of create-versioned-copy: the yaml block is copied verbatim
CreateVersionedCopy ==
  /\ active.yaml # "none"
  /\ snapshot # active
  /\ snapshot' = active
  /\ diffFile' = NoDiff
  /\ UNCHANGED <<active, notice>>

\* click handler of compare-scenario-versions
CompareCmd ==
  /\ diffFile = NoDiff
  /\ diffFile' = compareVersions(active, snapshot)
  /\ UNCHANGED <<active, snapshot, notice>>

InitValidate ==
  /\ active \in ValidateNotes
  /\ snapshot = NoYaml
  /\ notice = NoNotice
  /\ diffFile = NoDiff

NextValidate ==
  \/ ReplaceScenario(ValidateScenarios)
  \/ AppendScenario(ValidateScenarios)
  \/ RemoveScenario
  \/ ReplaceBlock(ValidateRoots)
  \/ ValidateCmd

SpecValidate == InitValidate /\ [][NextValidate]_vars

Init ==
  /\ active \in DiffNotes
  /\ snapshot \in DiffNotes
  /\ notice = NoNotice
  /\ diffFile = NoDiff

Next ==
  \/ ReplaceScenario(DiffScenarios)
  \/ AppendScenario(DiffScenarios)
  \/ RemoveScenario
  \/ ReplaceBlock(DiffRoots)
  \/ CreateVersionedCopy
  \/ ValidateCmd
  \/ CompareCmd

Spec == Init /\ [][Next]_vars

TypeOK ==
  /\ notice.kind \in {"none", "no_yaml", "parse_error", "invalid_root", "failed", "valid"}
  /\ diffFile.kind \in {"none", "threw", "created"}

(***************************************************************************)
(* Vocabulary of the properties                                            *)
(***************************************************************************)
Elems(q) == {q[n] : n \in 1..Len(q)}

\* the outcome shown is the outcome of validating the active note
Validated == notice.kind # "none"
\* validation ran to its end and produced its list
ListReturned == notice.kind \in {"failed", "valid"}

RootMessage == "Invalid YAML: \"scenarios\" missing or not an array."

\* 4-tuples in lexicographic order
Before(k1, k2) ==
  \E n \in 1..4 : k1[n] < k2[n] /\ \A m \in 1..(n - 1) : k1[m] = k2[m]

NonEmptyString(v) == v.t = "string" /\ v.s # ""
ArrayOf(s, k) == IF Get(s, k).t = "array" THEN Get(s, k).a ELSE <<>>
TriggerMapping(t) == Get(t, "trigger")
HasTriggerMapping(t) == TriggerMapping(t).t = "object"

\* the violations of scenario s at 0-based index i, each with its place in
\* the order: id, name, triggers (per trigger: type, value), steps
Violations(s, i) ==
  {[key |-> <<i, 1, 0, 0>>, text |-> ScenarioPrefix(i) \o ": id invalid"] :
     x \in {1} \cap {n \in {1} : ~NonEmptyString(Get(s, "id"))}}
  \cup
  {[key |-> <<i, 2, 0, 0>>, text |-> ScenarioPrefix(i) \o ": name invalid"] :
     x \in {1} \cap {n \in {1} : ~NonEmptyString(Get(s, "name"))}}
  \cup
  {[key |-> <<i, 3, 0, 0>>, text |-> ScenarioPrefix(i) \o ": triggers missing or not an array"] :
     x \in {1} \cap {n \in {1} : Get(s, "triggers").t # "array"}}
  \cup
  {[key |-> <<i, 3, j, 1>>, text |-> TriggerPrefix(i, j - 1) \o ": type invalid"] :
     j \in {n \in 1..Len(ArrayOf(s, "triggers")) :
              ~NonEmptyString(Get(TriggerMapping(ArrayOf(s, "triggers")[n]), "type"))}}
  \cup
  {[key |-> <<i, 3, j, 2>>, text |-> TriggerPrefix(i, j - 1) \o ": value missing"] :
     j \in {n \in 1..Len(ArrayOf(s, "triggers")) :
              ~HasKey(TriggerMapping(ArrayOf(s, "triggers")[n]), "value")}}
  \cup
  {[key |-> <<i, 4, 0, 0>>, text |-> ScenarioPrefix(i) \o ": steps missing or not an array"] :
     x \in {1} \cap {n \in {1} : Get(s, "steps").t # "array"}}
  \cup
  {[key |-> <<i, 4, k, 1>>, text |-> StepPrefix(i, k - 1) \o ": invalid structure"] :
     k \in {n \in 1..Len(ArrayOf(s, "steps")) :
              \/ ~Truthy(Get(ArrayOf(s, "steps")[n], "type"))
              \/ Get(Get(ArrayOf(s, "steps")[n], "parameters"), "items").t # "array"}}

DocViolations(note) ==
  UNION {Violations(ScenariosOf(note)[i], i - 1) : i \in 1..Len(ScenariosOf(note))}

KeyOf(note, text) == (CHOOSE v \in DocViolations(note) : v.text = text).key

\* the triggers <<i, j>> (1-based) of the note that have a trigger mapping
MappedTriggers(note) ==
  UNION {{<<i, j>> : j \in {n \in 1..Len(ArrayOf(ScenariosOf(note)[i], "triggers")) :
                              HasTriggerMapping(ArrayOf(ScenariosOf(note)[i], "triggers")[n])}} :
           i \in 1..Len(ScenariosOf(note))}
TriggerAt(note, p) == ArrayOf(ScenariosOf(note)[p[1]], "triggers")[p[2]]
ValueMissing(p) == TriggerPrefix(p[1] - 1, p[2] - 1) \o ": value missing"

(***************************************************************************)
(* Properties of validate                                                  *)
(***************************************************************************)
\* C1: whatever a yaml block decodes to, validate and diff never raise: no
\* parse-error notice and no failed comparison comes from notes whose yaml
\* blocks jsyaml.load decodes.
C1_NeverRaise ==
  /\ active.yaml = "ok" => notice.kind # "parse_error"
  /\ (active.yaml = "ok" /\ snapshot.yaml = "ok") => diffFile.kind # "threw"

\* C2: when the decoded document has no `scenarios` key or `scenarios` is
\* not a sequence, validate reports the root message alone.
C2_RootErrorAlone ==
  (Validated /\ active.yaml = "ok" /\ ~HasScenarios(active))
     => notice = Notice("invalid_root", <<RootMessage>>)

C2_Witness ==
  /\ notice.kind = "invalid_root"
  /\ active.yaml = "ok"
  /\ active.data.t = "object"
  /\ HasKey(active.data, "scenarios")

\* C3: for a document whose `scenarios` is a sequence validate returns the
\* list with one entry per violation, ordered scenario by scenario and within
\* a scenario as id, name, triggers (type before value), steps.
C3_AllViolationsInOrder ==
  (Validated /\ HasScenarios(active))
     => /\ ListReturned
        /\ Elems(notice.errors) = {v.text : v \in DocViolations(active)}
        /\ \A p, q \in 1..Len(notice.errors) :
             p < q => Before(KeyOf(active, notice.errors[p]),
                             KeyOf(active, notice.errors[q]))

\* C4: for every trigger that has a trigger mapping, validate emits its
\* "value missing" message exactly when the mapping has no `value` key.
C4_ValueMissingIffKeyAbsent ==
  (Validated /\ HasScenarios(active))
     => \A p \in MappedTriggers(active) :
          ValueMissing(p) \in Elems(notice.errors)
            <=> ~HasKey(TriggerMapping(TriggerAt(active, p)), "value")

\* the triggers whose `value` key is present and holds "" or 0
FalsyValued(note) ==
  {p \in MappedTriggers(note) :
     /\ HasKey(TriggerMapping(TriggerAt(note, p)), "value")
     /\ Get(TriggerMapping(TriggerAt(note, p)), "value") \in {Str(""), Num(0)}}

\* C5 as stated: a trigger whose `value` is "" or 0 gets the "value
\* missing" message in the list validate returns.
C5_Original ==
  (ListReturned /\ HasScenarios(active))
     => \A p \in FalsyValued(active) : ValueMissing(p) \in Elems(notice.errors)

\* C5 amended: a trigger whose `value` key is present and holds "" or 0 is
\* treated as having a value: it never gets the "value missing" message.
C5_FalsyValueIsPresent ==
  (Validated /\ HasScenarios(active))
     => \A p \in FalsyValued(active) : ValueMissing(p) \notin Elems(notice.errors)

C5_Witness ==
  /\ notice.kind = "failed"
  /\ FalsyValued(active) # {}
  /\ \E p \in MappedTriggers(active) : ValueMissing(p) \in Elems(notice.errors)

(***************************************************************************)
(* Properties of diff                                                      *)
(***************************************************************************)
\* a document whose `scenarios` is a sequence of mappings
IsScenarioDocument(note) ==
  HasScenarios(note) /\ \A s \in Elems(ScenariosOf(note)) : s.t = "object"

\* the outcome recorded is the outcome of comparing active with snapshot
Compared == diffFile.kind # "none"
BothDocuments == IsScenarioDocument(active) /\ IsScenarioDocument(snapshot)

Fields == <<"name", "triggers", "steps">>
Path(i, f) == ScenarioPrefix(i) \o "." \o f
Paths(changes) == {c.path : c \in Elems(changes)}

\* diff(snapshot, active), the call with the sides exchanged
Reverse == simpleDiff(snapshot.data, active.data)
Swapped(c) == [path |-> c.path, old |-> c.new, new |-> c.old]

MinLen == IF Len(ScenariosOf(active)) < Len(ScenariosOf(snapshot))
          THEN Len(ScenariosOf(active)) ELSE Len(ScenariosOf(snapshot))
CommonPaths == {Path(i - 1, Fields[n]) : i \in 1..MinLen, n \in 1..3}

\* scenario i (1-based) of snapshot, or the empty object
PrevAt(i) ==
  IF i <= Len(ScenariosOf(snapshot)) THEN ScenariosOf(snapshot)[i] ELSE EmptyObject

\* the <<i, n>> of current, in scenario-then-field order, whose field
\* Fields[n] is not the same value in both documents
AllFields == [m \in 1..(3 * Len(ScenariosOf(active))) |-> <<((m - 1) \div 3) + 1, ((m - 1) % 3) + 1>>]
Differs(p) == Get(ScenariosOf(active)[p[1]], Fields[p[2]]) # Get(PrevAt(p[1]), Fields[p[2]])
Differing == SelectSeq(AllFields, Differs)

\* n2 differs from n1 at most in fields other than name, triggers, steps
SameComparedFields(n1, n2) ==
  /\ IsScenarioDocument(n2)
  /\ Len(ScenariosOf(n1)) = Len(ScenariosOf(n2))
  /\ \A i \in 1..Len(ScenariosOf(n1)), n \in 1..3 :
       Get(ScenariosOf(n1)[i], Fields[n]) = Get(ScenariosOf(n2)[i], Fields[n])
Variants(n1) == {n2 \in DiffNotes : SameComparedFields(n1, n2)}

\* C6: diff(A, A) is the sentinel alone.
C6_SelfDiffIsSentinel ==
  (Compared /\ IsScenarioDocument(active) /\ snapshot = active)
     => /\ diffFile.kind = "created"
        /\ diffFile.changes = <<>>
        /\ diffFile.text = <<Sentinel>>

C6_Witness ==
  /\ diffFile.kind = "created"
  /\ snapshot = active
  /\ IsScenarioDocument(active)
  /\ Len(ScenariosOf(active)) = MaxScenarios
  /\ \E s \in Elems(ScenariosOf(active)) : Get(s, "triggers").t = "array"

\* C7 as stated: diff(A, B) and diff(B, A) report changes on the same set
\* of paths, whatever the numbers of scenarios.
C7_Original ==
  (Compared /\ BothDocuments)
     => Paths(diffFile.changes) = Paths(Reverse.changes)

\* C7 amended: on the scenario indices that both documents have, diff(A, B)
\* and diff(B, A) report the same paths, with old and new exchanged.
C7_SamePathsOnCommonIndices ==
  (Compared /\ BothDocuments)
     => /\ Reverse.kind = "created"
        /\ \A c \in Elems(diffFile.changes) :
             c.path \in CommonPaths => Swapped(c) \in Elems(Reverse.changes)
        /\ \A c \in Elems(Reverse.changes) :
             c.path \in CommonPaths => Swapped(c) \in Elems(diffFile.changes)

C7_Witness ==
  /\ diffFile.kind = "created"
  /\ BothDocuments
  /\ Len(ScenariosOf(active)) # Len(ScenariosOf(snapshot))
  /\ Paths(diffFile.changes) \cap CommonPaths # {}
  /\ Paths(diffFile.changes) # Paths(Reverse.changes)

\* C8: the output depends on name, triggers and steps only: a document
\* differing from active (or from snapshot) in other fields gives the same
\* output, and every change line is on a name, triggers or steps path.
C8_OnlyComparedFields ==
  (Compared /\ BothDocuments)
     => /\ \A n2 \in Variants(active) : simpleDiff(n2.data, snapshot.data) = diffFile
        /\ \A n2 \in Variants(snapshot) : simpleDiff(active.data, n2.data) = diffFile
        /\ \A c \in Elems(diffFile.changes) :
             \E i \in 1..Len(ScenariosOf(active)), n \in 1..3 :
               c.path = Path(i - 1, Fields[n])

C8_Witness ==
  /\ diffFile.kind = "created"
  /\ BothDocuments
  /\ Variants(active) # {active}
  /\ Variants(snapshot) # {snapshot}
  /\ diffFile.changes # <<>>

\* C9: the text is the sentinel alone exactly when no compared field
\* differs at any index of current; otherwise it is one change line per
\* differing field, in scenario-then-field order, and no sentinel.
C9_SentinelOrOrderedLines ==
  (Compared /\ BothDocuments)
     => /\ diffFile.kind = "created"
        /\ (diffFile.text = <<Sentinel>>) <=> (Differing = <<>>)
        /\ Differing # <<>> =>
             /\ Len(diffFile.text) = Len(Differing)
             /\ Len(diffFile.changes) = Len(Differing)
             /\ \A m \in 1..Len(Differing) :
                  /\ diffFile.changes[m].path = Path(Differing[m][1] - 1, Fields[Differing[m][2]])
                  /\ diffFile.text[m] = ChangeLine(diffFile.changes[m])
                  /\ diffFile.text[m] # Sentinel

C9_Witness ==
  /\ diffFile.kind = "created"
  /\ BothDocuments
  /\ Len(ScenariosOf(snapshot)) > Len(ScenariosOf(active))
  /\ Len(diffFile.changes) >= 2
  /\ ScenariosOf(snapshot)[Len(ScenariosOf(snapshot))].t = "object"

\* the scenarios of current beyond the length of previous
Beyond == (Len(ScenariosOf(snapshot)) + 1)..Len(ScenariosOf(active))

\* C10 as stated: each of name, triggers and steps of a scenario of current
\* beyond the length of previous is reported as a change.
C10_Original ==
  (Compared /\ BothDocuments)
     => /\ diffFile.kind = "created"
        /\ \A i \in Beyond, n \in 1..3 : Path(i - 1, Fields[n]) \in Paths(diffFile.changes)

\* C10 amended: diff does not fail, and of a scenario of current beyond the
\* length of previous it reports exactly the fields among name, triggers and
\* steps that the scenario has, each with "undefined" as its old side.
C10_PresentFieldsReported ==
  (Compared /\ BothDocuments)
     => /\ diffFile.kind = "created"
        /\ \A i \in Beyond, n \in 1..3 :
             /\ Path(i - 1, Fields[n]) \in Paths(diffFile.changes)
                  <=> HasKey(ScenariosOf(active)[i], Fields[n])
             /\ \A c \in Elems(diffFile.changes) :
                  c.path = Path(i - 1, Fields[n]) => c.old = "undefined"

C10_Witness ==
  /\ diffFile.kind = "created"
  /\ BothDocuments
  /\ \E i \in Beyond :
       /\ HasKey(ScenariosOf(active)[i], "name")
       /\ ~HasKey(ScenariosOf(active)[i], "steps")
       /\ Path(i - 1, "name") \in Paths(diffFile.changes)
====
